---- MODULE Spec2Model ----
(***************************************************************************)
(* FinBoard: the per-URL response cache (apiService.js), the fetch         *)
(* orchestrator fetchFromAPI with its CORS-proxy fallback, the adaptive    *)
(* cache-duration policy of WidgetContainer.fetchData and the widgets'     *)
(* fetch cycles over the shared cache.                                     *)
(*                                                                         *)
(* Time.  Date.now() is a whole number of milliseconds, but a cache        *)
(* duration is R/3 or R/4 seconds times 1000, which is not.  The clock     *)
(* and every timestamp are therefore kept in thirds of a millisecond       *)
(* (Ms(n) is n milliseconds), and a duration in seconds is kept in         *)
(* twelfths of a second (Sec(n) is n seconds): both are then exact         *)
(* integers for every whole refresh interval R.                            *)
(***************************************************************************)
EXTENDS Integers, Sequences, FiniteSets, TLC

VARIABLES
    now,        \* Date.now(), in thirds of a millisecond
    apiCache,   \* the module-level Map: url -> entry, or NoEntry
    lastSet,    \* harness history: per url, the last setCachedData call
    ret,        \* harness history: the last cache operation and what it returned
    calls,      \* the fetchFromAPI invocations: position, arguments, result
    started,    \* number of fetchFromAPI invocations started so far
    policyIn,   \* input of the last cache-duration computation
    policyOut,  \* its output
    sweepTimer, \* the interval that runs clearExpiredCache: when it fires next
    widgets,    \* the dashboard store's widgets array
    mounts,     \* per widget, the mounted WidgetContainer: effect closure, timer
    cycles,     \* per fetchFromAPI invocation, the fetchData cycle awaiting it
    pureIn,     \* the last call of getNestedValue, transformAPIData or
                \* exploreJSONPaths: the function and its arguments
    pureOut     \* what it returned

widgetVars == <<widgets, mounts, cycles>>
pureVars == <<pureIn, pureOut>>
vars == <<now, apiCache, lastSet, ret, calls, started, policyIn, policyOut, sweepTimer, pureVars,
          widgets, mounts, cycles>>

---------------------------------------------------------------------------
(* Bounds of the model *)

MaxSteps == 2       \* the clock runs from 0 to MaxSteps steps
MaxStarted == 2     \* fetchFromAPI invocations per behaviour
MaxInterval == 300  \* largest refresh interval tried by the policy harness
MaxWidgets == 2     \* widgets on the dashboard

---------------------------------------------------------------------------
(* Units *)

Ms(n) == 3 * n
Sec(n) == 12 * n
Step == Ms(1000)

---------------------------------------------------------------------------
(* JavaScript numbers: integers plus NaN.  NaN compares false with          *)
(* everything and absorbs arithmetic.                                       *)

NaN == 0 - 1000000000
IsNaN(x) == x = NaN
JsLt(a, b) == ~IsNaN(a) /\ ~IsNaN(b) /\ a < b
JsGt(a, b) == ~IsNaN(a) /\ ~IsNaN(b) /\ a > b
JsAdd(a, b) == IF IsNaN(a) \/ IsNaN(b) THEN NaN ELSE a + b
JsScale(k, a) == IF IsNaN(a) THEN NaN ELSE k * a
MathMin(a, b) == IF IsNaN(a) \/ IsNaN(b) THEN NaN ELSE IF a < b THEN a ELSE b

---------------------------------------------------------------------------
(* JSON values, tagged by type.  JavaScript's null is JNull: it is both the *)
(* JSON value null and the "nothing" that getCachedData and FetchResult use. *)

JNull == [t |-> "null"]
JBool(b) == [t |-> "bool", b |-> b]
JNum(n) == [t |-> "num", n |-> n]
JStr(s) == [t |-> "str", s |-> s]
JObj(o) == [t |-> "obj", o |-> o]
JArr(a) == [t |-> "arr", a |-> a]

JUndef == [t |-> "undef"]

\* ToBoolean: undefined, null, false, 0, NaN and "" are falsy; objects and
\* arrays are truthy
Truthy(v) ==
    CASE v.t = "null" -> FALSE
      [] v.t = "undef" -> FALSE
      [] v.t = "bool" -> v.b
      [] v.t = "num"  -> ~(v.n = 0 \/ IsNaN(v.n))
      [] v.t = "str"  -> v.s # ""
      [] OTHER        -> TRUE

\* String.prototype.includes
Includes(s, sub) ==
    \E i \in 1..(Len(s) - Len(sub) + 1) : SubSeq(s, i, i + Len(sub) - 1) = sub

URLs == {"u1", "u2"}
CORS_PROXY == "https://cors-anywhere.herokuapp.com/"

\* response bodies the network can deliver
Bodies == {JNull, JNum(0), JObj(<< <<"price", JNum(1)>> >>)}

---------------------------------------------------------------------------
(* ResponseCache: apiService.js lines 6-64, 292-309 *)

NoEntry == [none |-> TRUE]
DEFAULT_CACHE_DURATION == Ms(5 * 1000)

\* (mutant) getCachedData without the expiry test
getCachedData_ret_noExpiry(cache, url, t) ==
    IF cache[url] = NoEntry THEN JNull ELSE cache[url].data

\* getCachedData: the value returned
getCachedData_ret(cache, url, t) ==
    LET cached == cache[url] IN
    IF cached = NoEntry THEN JNull
    ELSE IF JsGt(t, cached.expiresAt) THEN JNull
    ELSE cached.data

\* (mutant) an expired entry is reported absent but left in the cache
getCachedData_cache_noEvict(cache, url, t) == cache

\* getCachedData: the cache it leaves (an expired entry is deleted)
getCachedData_cache(cache, url, t) ==
    LET cached == cache[url] IN
    IF cached # NoEntry /\ JsGt(t, cached.expiresAt)
    THEN [cache EXCEPT ![url] = NoEntry]
    ELSE cache

\* (mutant) an entry already held for the url is kept
setCachedData_keepsFirst(cache, url, data, duration, t) ==
    IF cache[url] # NoEntry THEN cache
    ELSE [cache EXCEPT ![url] =
             [data |-> data, timestamp |-> t, expiresAt |-> JsAdd(t, duration)]]

\* (mutant) a duration of 0 falls back to the default duration
setCachedData_zeroIsDefault(cache, url, data, duration, t) ==
    [cache EXCEPT ![url] =
        [data |-> data, timestamp |-> t,
         expiresAt |-> JsAdd(t, IF duration = 0 THEN DEFAULT_CACHE_DURATION
                                ELSE duration)]]

\* setCachedData: the cache it leaves
setCachedData(cache, url, data, duration, t) ==
    [cache EXCEPT ![url] =
        [data |-> data, timestamp |-> t, expiresAt |-> JsAdd(t, duration)]]

\* (mutant) the sweep also drops the entries that expire at this very reading
clearExpiredCache_inclusive(cache, t) ==
    [u \in DOMAIN cache |->
        IF cache[u] # NoEntry /\ ~JsLt(t, cache[u].expiresAt) THEN NoEntry
        ELSE cache[u]]

\* (mutant) the comparison turned round: the live entries are dropped
clearExpiredCache_reversed(cache, t) ==
    [u \in DOMAIN cache |->
        IF cache[u] # NoEntry /\ JsLt(t, cache[u].expiresAt) THEN NoEntry
        ELSE cache[u]]

\* clearExpiredCache: the cache it leaves
clearExpiredCache(cache, t) ==
    [u \in DOMAIN cache |->
        IF cache[u] # NoEntry /\ JsGt(t, cache[u].expiresAt) THEN NoEntry
        ELSE cache[u]]

\* clearCacheForUrl / clearAllCache
clearCacheForUrl(cache, url) == [cache EXCEPT ![url] = NoEntry]
clearAllCache(cache) == [u \in DOMAIN cache |-> NoEntry]

---------------------------------------------------------------------------
(* Initial state: the module has just been loaded *)

NoSet == [none |-> TRUE]
NoRet == [op |-> "none"]

\* line 67: setInterval(clearExpiredCache, 60 * 1000), at module load
SWEEP_INTERVAL == Ms(60 * 1000)

InitCache ==
    /\ apiCache = [u \in URLs |-> NoEntry]
    /\ lastSet = [u \in URLs |-> NoSet]
    /\ ret = NoRet
    /\ sweepTimer = [due |-> SWEEP_INTERVAL]

\* no setCachedData is "the immediately preceding operation" any more
Stale(ls) ==
    [u \in DOMAIN ls |-> IF ls[u] = NoSet THEN NoSet ELSE [ls[u] EXCEPT !.fresh = FALSE]]

---------------------------------------------------------------------------
(* Cache harness: the cache operations applied one at a time *)

\* durations handed to setCachedData, in thirds of a millisecond
HarnessDurations == {0, Step}

CacheSet(u, v, d) ==
    /\ apiCache' = setCachedData(apiCache, u, v, d, now)
    /\ lastSet' = [Stale(lastSet) EXCEPT ![u] =
                      [at |-> now, data |-> v, duration |-> d, fresh |-> TRUE]]
    /\ ret' = [op |-> "set"]
    /\ UNCHANGED <<now, calls, started, policyIn, policyOut, sweepTimer, pureVars, widgetVars>>

CacheGet(u) ==
    /\ ret' = [op |-> "get", url |-> u, at |-> now,
               value |-> getCachedData_ret(apiCache, u, now),
               since |-> lastSet[u]]
    /\ apiCache' = getCachedData_cache(apiCache, u, now)
    /\ lastSet' = Stale(lastSet)
    /\ UNCHANGED <<now, calls, started, policyIn, policyOut, sweepTimer, pureVars, widgetVars>>

CacheSweep ==
    /\ apiCache' = clearExpiredCache(apiCache, now)
    /\ lastSet' = Stale(lastSet)
    /\ ret' = [op |-> "sweep", at |-> now]
    /\ UNCHANGED <<now, calls, started, policyIn, policyOut, sweepTimer, pureVars, widgetVars>>

CacheClearUrl(u) ==
    /\ apiCache' = clearCacheForUrl(apiCache, u)
    /\ lastSet' = Stale(lastSet)
    /\ ret' = [op |-> "delete"]
    /\ UNCHANGED <<now, calls, started, policyIn, policyOut, sweepTimer, pureVars, widgetVars>>

CacheClearAll ==
    /\ apiCache' = clearAllCache(apiCache)
    /\ lastSet' = Stale(lastSet)
    /\ ret' = [op |-> "clear"]
    /\ UNCHANGED <<now, calls, started, policyIn, policyOut, sweepTimer, pureVars, widgetVars>>

---------------------------------------------------------------------------
(* Adaptive cache duration: WidgetContainer.fetchData, lines 33-42.         *)
(* R is the widget's refreshInterval in seconds; the result is in           *)
(* twelfths of a second, so R/3 is 4*R and R/4 is 3*R.                      *)

\* (mutant) the slow-refresh cap dropped
cacheDurationFor_uncapped(R, skipCache) ==
    IF skipCache THEN 0
    ELSE IF JsLt(R, 30) THEN MathMin(Sec(5), JsScale(4, R))
    ELSE JsScale(3, R)

cacheDurationFor(R, skipCache) ==
    IF skipCache THEN 0
    ELSE IF JsLt(R, 30) THEN MathMin(Sec(5), JsScale(4, R))
    ELSE IF JsLt(R, 120) THEN JsScale(3, R)
    ELSE MathMin(Sec(30), JsScale(3, R))

\* refresh intervals a widget can hold: parseInt of the settings input
Intervals == ((0 - 3)..MaxInterval) \cup {NaN}

NoPolicy == [none |-> TRUE]

InitPolicy ==
    /\ policyIn = NoPolicy
    /\ policyOut = 0

ComputeDuration(R, skipCache) ==
    /\ policyIn' = [R |-> R, skipCache |-> skipCache]
    /\ policyOut' = cacheDurationFor(R, skipCache)
    /\ UNCHANGED <<now, apiCache, lastSet, ret, calls, started, sweepTimer, pureVars,
                   widgetVars>>

---------------------------------------------------------------------------
(* PathAccessor and DataTransformer: apiService.js lines 157-169, 229-265.  *)
(* An object is the sequence of its <<key, value>> pairs in insertion       *)
(* order, an array the sequence of its elements.                            *)

Digits == {"0", "1", "2", "3", "4", "5", "6", "7", "8", "9"}

CharAt(s, i) == SubSeq(s, i, i)

DigitValue(c) ==
    CASE c = "0" -> 0 [] c = "1" -> 1 [] c = "2" -> 2 [] c = "3" -> 3
      [] c = "4" -> 4 [] c = "5" -> 5 [] c = "6" -> 6 [] c = "7" -> 7
      [] c = "8" -> 8 [] c = "9" -> 9

IsDigits(s) == Len(s) > 0 /\ \A i \in 1..Len(s) : CharAt(s, i) \in Digits

\* parseInt of a string of decimal digits
RECURSIVE parseInt(_)
parseInt(s) ==
    IF Len(s) = 0 THEN 0
    ELSE 10 * parseInt(SubSeq(s, 1, Len(s) - 1)) + DigitValue(CharAt(s, Len(s)))

\* path.split('.')
RECURSIVE split(_)
split(s) ==
    IF \E i \in 1..Len(s) : CharAt(s, i) = "."
    THEN LET i == CHOOSE i \in 1..Len(s) :
                     /\ CharAt(s, i) = "."
                     /\ \A j \in 1..(i - 1) : CharAt(s, j) # "."
         IN  <<SubSeq(s, 1, i - 1)>> \o split(SubSeq(s, i + 1, Len(s)))
    ELSE <<s>>

\* key.match(/^(.+)\[(\d+)\]$/): the position of the "[" that opens the
\* trailing index, or 0 when the key does not match
arrayMatch(key) ==
    LET n == Len(key)
        opens == { j \in 2..(n - 2) :
                     /\ CharAt(key, j) = "["
                     /\ IsDigits(SubSeq(key, j + 1, n - 1)) }
    IN  IF n >= 4 /\ CharAt(key, n) = "]" /\ opens # {}
        THEN CHOOSE j \in opens : TRUE
        ELSE 0

\* an array index as a property name: "0", "1", ... without leading zeros
IsIndex(key) == IsDigits(key) /\ (key = "0" \/ CharAt(key, 1) # "0")

\* current?.[key] for a string key.  Properties inherited from prototypes
\* (toString, constructor, ...) are outside the model.
GetProp(current, key) ==
    CASE current.t = "obj" ->
             IF \E i \in 1..Len(current.o) : current.o[i][1] = key
             THEN current.o[CHOOSE i \in 1..Len(current.o) : current.o[i][1] = key][2]
             ELSE JUndef
      [] current.t = "arr" ->
             IF key = "length" THEN JNum(Len(current.a))
             ELSE IF IsIndex(key) /\ parseInt(key) < Len(current.a)
             THEN current.a[parseInt(key) + 1]
             ELSE JUndef
      [] current.t = "str" ->
             IF key = "length" THEN JNum(Len(current.s))
             ELSE IF IsIndex(key) /\ parseInt(key) < Len(current.s)
             THEN JStr(CharAt(current.s, parseInt(key) + 1))
             ELSE JUndef
      [] OTHER -> JUndef

\* the reducer of getNestedValue, lines 160-168
RECURSIVE reducePath(_, _)
reducePath(current, keys) ==
    IF keys = << >> THEN current
    ELSE LET key == Head(keys)
             j == arrayMatch(key)
             next == IF j # 0
                     THEN GetProp(GetProp(current, SubSeq(key, 1, j - 1)),
                                  ToString(parseInt(SubSeq(key, j + 1, Len(key) - 1))))
                     ELSE GetProp(current, key)
         IN  reducePath(next, Tail(keys))

\* (mutant) the empty path is split and looked up like any other
getNestedValue_noPathGuard(obj, path) ==
    IF ~Truthy(obj) THEN obj
    ELSE reducePath(obj, split(path))

getNestedValue(obj, path) ==
    IF path = "" \/ ~Truthy(obj) THEN obj
    ELSE reducePath(obj, split(path))

\* transformed[displayName] = value
SetKey(o, key, value) ==
    IF \E i \in 1..Len(o) : o[i][1] = key
    THEN [i \in 1..Len(o) |-> IF o[i][1] = key THEN <<key, value>> ELSE o[i]]
    ELSE Append(o, <<key, value>>)

RECURSIVE extractFields(_, _, _)
extractFields(item, fieldMappings, transformed) ==
    IF fieldMappings = << >> THEN JObj(transformed)
    ELSE extractFields(item, Tail(fieldMappings),
             SetKey(transformed, Head(fieldMappings).displayName,
                    getNestedValue(item, Head(fieldMappings).path)))

\* the longest prefix of decimal digits
RECURSIVE digitPrefix(_)
digitPrefix(s) ==
    IF Len(s) > 0 /\ CharAt(s, 1) \in Digits
    THEN CharAt(s, 1) \o digitPrefix(SubSeq(s, 2, Len(s)))
    ELSE ""

\* (mutant) a strict conversion: a string with anything after the digits, and
\* an array, is not a number
parseFloat_strict(value) ==
    CASE value.t = "num" -> value.n
      [] value.t = "str" -> IF IsDigits(value.s) THEN parseInt(value.s) ELSE NaN
      [] OTHER -> NaN

\* parseFloat(value): the argument is converted to a string first, so an
\* array parses as its first element.  Strings of the model carry no sign,
\* fraction or exponent.
RECURSIVE parseFloat(_)
parseFloat(value) ==
    CASE value.t = "num" -> value.n
      [] value.t = "str" ->
             IF digitPrefix(value.s) = "" THEN NaN ELSE parseInt(digitPrefix(value.s))
      [] value.t = "arr" ->
             IF value.a = << >> THEN NaN ELSE parseFloat(value.a[1])
      [] OTHER -> NaN

transformAPIData(data, fieldMappings, widgetType) ==
    IF ~Truthy(data) \/ fieldMappings = << >> THEN JArr(<< >>)
    ELSE IF data.t = "arr"
    THEN JArr([i \in 1..Len(data.a) |-> extractFields(data.a[i], fieldMappings, << >>)])
    ELSE IF widgetType = "chart" /\ Len(fieldMappings) > 1
    THEN JArr([i \in 1..Len(fieldMappings) |->
                 LET value == getNestedValue(data, fieldMappings[i].path)
                     number == parseFloat(value)
                 IN  JObj(<< <<"name", JStr(fieldMappings[i].displayName)>>,
                             <<"value", JNum(IF IsNaN(number) \/ number = 0
                                             THEN 0 ELSE number)>> >>)])
    ELSE JArr(<<extractFields(data, fieldMappings, << >>)>>)

\* `Array.isArray(v) ? 'array' : typeof v`; typeof null is 'object'
typeOf(v) ==
    CASE v.t = "arr" -> "array"
      [] v.t = "num" -> "number"
      [] v.t = "str" -> "string"
      [] v.t = "bool" -> "boolean"
      [] v.t = "undef" -> "undefined"
      [] OTHER -> "object"

\* a descriptor pushed to `paths`; only the array branch sets a sample
Descriptor(path, value, type, sample) ==
    [path |-> path, value |-> value, type |-> type, sample |-> sample]

DefaultMaxDepth == 5

RECURSIVE explore(_, _, _, _)
RECURSIVE exploreKeys(_, _, _, _)

\* the forEach over Object.keys(current): `entries` are the keys still to visit
exploreKeys(entries, currentPath, depth, maxDepth) ==
    IF entries = << >> THEN << >>
    ELSE LET key == Head(entries)[1]
             value == Head(entries)[2]
             newPath == IF currentPath # "" THEN currentPath \o "." \o key ELSE key
             valueType == typeOf(value)
         IN  << Descriptor(newPath,
                           IF valueType \in {"object", "array"}
                           THEN JStr("{" \o valueType \o "}") ELSE value,
                           valueType, JUndef) >>
             \o (IF valueType \in {"object", "array"}
                 THEN explore(value, newPath, depth + 1, maxDepth) ELSE << >>)
             \o exploreKeys(Tail(entries), currentPath, depth, maxDepth)

\* the descriptors one call of explore(current, currentPath, depth) pushes,
\* in the order it pushes them
explore(current, currentPath, depth, maxDepth) ==
    IF depth > maxDepth \/ current.t \in {"null", "undef"} THEN << >>
    ELSE IF current.t = "arr" /\ Len(current.a) > 0
    THEN << Descriptor(currentPath,
                       JStr("Array(" \o ToString(Len(current.a)) \o ")"),
                       "array", current.a[1]) >>
         \o explore(current.a[1], currentPath \o "[0]", depth + 1, maxDepth)
    ELSE IF current.t = "obj"
    THEN exploreKeys(current.o, currentPath, depth, maxDepth)
    ELSE << >>

\* (mutant) the cap lets one more level through
exploreJSONPaths_capOffByOne(obj, prefix, maxDepth) ==
    explore(obj, prefix, 0, maxDepth + 1)

exploreJSONPaths(obj, prefix, maxDepth) ==
    explore(obj, prefix, 0, maxDepth)

---------------------------------------------------------------------------
(* The pure functions called on their own: the arguments are drawn from    *)
(* small sets of JSON values, paths and field selections.                  *)

NoCall == [fn |-> "none"]

InitPure ==
    /\ pureIn = NoCall
    /\ pureOut = JUndef

\* JSON values handed to getNestedValue
ResolveValues ==
    { JNull, JBool(FALSE), JBool(TRUE), JNum(0), JNum(5), JStr(""), JStr("ab"),
      JObj(<< <<"a", JNum(1)>> >>),
      JObj(<< <<"a", JNull>> >>),
      JObj(<< <<"a", JObj(<< <<"b", JArr(<<JNum(10), JNum(20)>>)>> >>)>> >>),
      JArr(<< >>),
      JArr(<<JNum(10), JNum(20)>>),
      JArr(<<JObj(<< <<"a", JNum(1)>> >>)>>) }

ResolvePaths ==
    { "", "a", "b", "a.b", "a.b[1]", "a.b[2]", "a.b.c", "a[0]", "0", "length",
      "[0]", "[0].a" }

Resolve(obj, path) ==
    /\ pureIn' = [fn |-> "getNestedValue", obj |-> obj, path |-> path]
    /\ pureOut' = getNestedValue(obj, path)
    /\ UNCHANGED <<now, apiCache, lastSet, ret, calls, started, policyIn, policyOut,
                   sweepTimer, widgetVars>>

\* responses handed to transformAPIData: quotes with nested objects whose
\* leaves share a key, a figure given as text, a figure given as a list
QuoteA ==
    JObj(<< <<"name", JStr("12abc")>>,
            <<"bid", JObj(<< <<"price", JNum(1)>> >>)>>,
            <<"ask", JObj(<< <<"price", JNum(2)>> >>)>> >>)
QuoteB ==
    JObj(<< <<"name", JStr("x")>>,
            <<"bid", JObj(<< <<"price", JNum(3)>> >>)>>,
            <<"vol", JArr(<<JNum(5), JNum(6)>>)>> >>)
QuoteC ==
    JObj(<< <<"name", JStr("7")>>, <<"vol", JNum(0)>>, <<"open", JBool(TRUE)>> >>)

TransformData ==
    { JNull, JArr(<< >>), JArr(<<QuoteA>>), JArr(<<QuoteA, QuoteB>>),
      JArr(<<QuoteB, QuoteA, QuoteC>>), QuoteA, QuoteB, QuoteC }

\* a selected field as the explorer builds it: the path, and the last key as
\* the display name (JSONFieldExplorer.js line 80)
Field(path, key) == [path |-> path, displayName |-> key]

TransformFields ==
    { << >>,
      <<Field("name", "name")>>,
      <<Field("name", "name"), Field("vol", "vol")>>,
      <<Field("bid.price", "price"), Field("ask.price", "price")>>,
      <<Field("vol", "vol"), Field("bid.price", "price"), Field("open", "open")>> }

Transform(data, fieldMappings, widgetType) ==
    /\ pureIn' = [fn |-> "transformAPIData", data |-> data,
                  fieldMappings |-> fieldMappings, widgetType |-> widgetType]
    /\ pureOut' = transformAPIData(data, fieldMappings, widgetType)
    /\ UNCHANGED <<now, apiCache, lastSet, ret, calls, started, policyIn, policyOut,
                   sweepTimer, widgetVars>>

\* JSON values handed to exploreJSONPaths
ExploreExample ==
    JObj(<< <<"a", JNum(1)>>, <<"b", JObj(<< <<"c", JNum(2)>> >>)>> >>)
ExploreChain ==
    JObj(<< <<"a", JObj(<< <<"a", JObj(<< <<"a", JObj(<< <<"a", JNum(1)>> >>)>> >>)>> >>)>> >>)

ExploreValues ==
    { JNull, JNum(5), JStr("ab"),
      JArr(<< >>), JArr(<<JNum(1), JNum(2)>>),
      JArr(<<JObj(<< <<"x", JNum(1)>> >>)>>),
      JArr(<<JArr(<<JNum(1)>>)>>),
      JObj(<< >>), ExploreExample, ExploreChain,
      JObj(<< <<"a", JArr(<<JNum(1)>>)>> >>),
      JObj(<< <<"a", JArr(<< >>)>> >>),
      JObj(<< <<"a", JNull>> >>),
      JObj(<< <<"a", JArr(<<JObj(<< <<"x", JNum(1)>> >>),
                            JObj(<< <<"y", JNum(2)>> >>)>>)>> >>),
      JObj(<< <<"a", JBool(TRUE)>>, <<"b", JStr("s")>> >>) }

Explore(obj, prefix, maxDepth) ==
    /\ pureIn' = [fn |-> "exploreJSONPaths", obj |-> obj, prefix |-> prefix,
                  maxDepth |-> maxDepth]
    /\ pureOut' = exploreJSONPaths(obj, prefix, maxDepth)
    /\ UNCHANGED <<now, apiCache, lastSet, ret, calls, started, policyIn, policyOut,
                   sweepTimer, widgetVars>>

\* a path that exploreJSONPaths(obj) returned is handed to getNestedValue
\* with the same obj, as a widget does with a selected field
ResolveDescriptor(k) ==
    /\ pureIn.fn = "exploreJSONPaths" /\ pureIn.prefix = ""
    /\ k \in DOMAIN pureOut
    /\ pureIn' = [fn |-> "resolveDescriptor", obj |-> pureIn.obj,
                  descriptor |-> pureOut[k]]
    /\ pureOut' = getNestedValue(pureIn.obj, pureOut[k].path)
    /\ UNCHANGED <<now, apiCache, lastSet, ret, calls, started, policyIn, policyOut,
                   sweepTimer, widgetVars>>

---------------------------------------------------------------------------
(* The network, as fetchFromAPI sees it *)

\* a Response: ok is true for the statuses 200-299
Responses ==
    { [status |-> 200, statusText |-> "OK"],
      [status |-> 404, statusText |-> "Not Found"],
      [status |-> 403, statusText |-> "CORS policy"] }

ok(response) == response.status >= 200 /\ response.status <= 299

\* values a rejected promise can carry: Error objects (name, message), a
\* value with no message property (an abort reason that is a string), and
\* undefined
ErrorObject(name, message) == [k |-> "object", name |-> name, message |-> message]
NoMessageValue == [k |-> "primitive"]
UndefinedValue == [k |-> "undefined"]

FetchRejections ==
    { ErrorObject("TypeError", "Failed to fetch"),
      ErrorObject("Error", ""),
      NoMessageValue,
      UndefinedValue }

JsonRejections ==
    { ErrorObject("SyntaxError", "Unexpected token < in JSON at position 0") }

\* new Error(`HTTP ${response.status}: ${response.statusText}`)
HttpError(response) ==
    ErrorObject("Error",
        "HTTP " \o ToString(response.status) \o ": " \o response.statusText)

---------------------------------------------------------------------------
(* fetchFromAPI: apiService.js lines 77-149 *)

CallIds == {1, 2}

NoError == [k |-> "none"]
NoResult == [none |-> TRUE]
NoResponse == [none |-> TRUE]

Success(data, cached) ==
    [success |-> TRUE, data |-> data, error |-> JNull, cached |-> cached]
Failure(message) ==
    [success |-> FALSE, data |-> JNull, error |-> JStr(message)]

IdleCall ==
    [pc |-> "idle", url |-> "", useCache |-> FALSE, cacheDuration |-> 0,
     requests |-> << >>, found |-> NoEntry, response |-> NoResponse,
     caught |-> NoError, proxyCaught |-> NoError, result |-> NoResult]

InitCalls ==
    /\ calls = [c \in CallIds |-> IdleCall]
    /\ started = 0

\* cacheDuration * 1000: seconds (in twelfths) to milliseconds (in thirds)
Times1000(cacheDuration) == JsScale(250, cacheDuration)

\* (mutant) every caught error is retried through the proxy
isCorsError_always(error) == TRUE

\* line 111: error.message.includes('CORS') || error.name === 'TypeError'
isCorsError(error) == Includes(error.message, "CORS") \/ error.name = "TypeError"

\* the outer catch block, lines 109-148, up to the proxy request
catchDirect(call, error) ==
    IF error.k # "object"
    THEN \* error.message is undefined (or error is): .includes throws
         [call EXCEPT !.pc = "rejected", !.caught = error]
    ELSE IF isCorsError(error)
    THEN [call EXCEPT !.pc = "proxy", !.caught = error,
                      !.requests = Append(@, CORS_PROXY \o call.url)]
    ELSE [call EXCEPT !.pc = "done", !.caught = error,
                      !.result = Failure(IF error.message # "" THEN error.message
                                         ELSE "Failed to fetch data from API")]

\* the inner catch block, lines 134-140
catchProxy(call, proxyError) ==
    IF proxyError.k = "undefined"
    THEN [call EXCEPT !.pc = "rejected", !.proxyCaught = proxyError]
    ELSE [call EXCEPT !.pc = "done", !.proxyCaught = proxyError,
                      !.result = Failure("CORS Error: "
                          \o (IF proxyError.k = "object" THEN proxyError.message
                              ELSE "undefined")
                          \o ". Try enabling CORS in your API or use a proxy.")]

\* (mutant) the response is cached and the call then reports a failure
succeed_failsAfterCaching(call, data) ==
    [call EXCEPT !.pc = "done", !.result = Failure("Failed to fetch data from API")]

\* lines 103-108 and 128-133: cache the response, return it
succeed(call, data) ==
    [call EXCEPT !.pc = "done", !.result = Success(data, FALSE)]

\* (mutant) the proxy path forgets to cache
cacheAfterSuccess_directOnly(cache, call, data, t) ==
    IF call.useCache /\ call.pc = "json"
    THEN setCachedData(cache, call.url, data, Times1000(call.cacheDuration), t)
    ELSE cache

\* (mutant) the response is cached whether or not the caller asked for it
cacheAfterSuccess_always(cache, call, data, t) ==
    setCachedData(cache, call.url, data, Times1000(call.cacheDuration), t)

cacheAfterSuccess(cache, call, data, t) ==
    IF call.useCache
    THEN setCachedData(cache, call.url, data, Times1000(call.cacheDuration), t)
    ELSE cache

\* (mutant) single flight: a call that finds another one in flight for the
\* same url waits for that one and sends no request of its own
fetchFromAPI_start_singleFlight(cache, url, useCache, cacheDuration, t) ==
    LET cachedData == getCachedData_ret(cache, url, t)
        call == [IdleCall EXCEPT !.url = url, !.useCache = useCache,
                                 !.cacheDuration = cacheDuration]
    IN  IF useCache /\ Truthy(cachedData)
        THEN [call EXCEPT !.pc = "done", !.result = Success(cachedData, TRUE),
                          !.found = cache[url]]
        ELSE IF \E b \in CallIds : calls[b].url = url /\ calls[b].pc \in {"direct", "json"}
        THEN [call EXCEPT !.pc = "direct"]
        ELSE [call EXCEPT !.pc = "direct", !.requests = <<url>>]

\* lines 77-95: the synchronous part, up to the first await
fetchFromAPI_start(cache, url, useCache, cacheDuration, t) ==
    LET cachedData == getCachedData_ret(cache, url, t)
        entry == cache[url]
        call == [IdleCall EXCEPT !.url = url, !.useCache = useCache,
                                 !.cacheDuration = cacheDuration,
                                 !.found = IF useCache /\ entry # NoEntry
                                              /\ ~JsGt(t, entry.expiresAt)
                                           THEN entry ELSE NoEntry]
    IN  IF useCache /\ Truthy(cachedData)
        THEN [call EXCEPT !.pc = "done", !.result = Success(cachedData, TRUE)]
        ELSE [call EXCEPT !.pc = "direct", !.requests = <<url>>]

Finished(call) == call.pc \in {"idle", "done", "rejected"}

NoCycle == [none |-> TRUE]

\* A fetchData cycle whose fetchFromAPI promise has settled resumes in a
\* microtask, before any timer, network or user event is handled.
MicrotaskPending ==
    \E c \in CallIds : cycles[c] # NoCycle /\ Finished(calls[c])

---------------------------------------------------------------------------
(* The clock *)

TickTo(d, horizon) ==
    /\ ~MicrotaskPending
    /\ now + d <= horizon
    /\ now' = now + d
    /\ lastSet' = Stale(lastSet)

Tick(d) == TickTo(d, MaxSteps * d)

Advance ==
    /\ Tick(Step)
    /\ UNCHANGED <<apiCache, ret, calls, started, policyIn, policyOut, sweepTimer, pureVars, widgetVars>>

\* the sweep interval fires: clearExpiredCache()
SweepTimerFires ==
    /\ ~MicrotaskPending
    /\ sweepTimer.due <= now
    /\ apiCache' = clearExpiredCache(apiCache, now)
    /\ sweepTimer' = [due |-> sweepTimer.due + SWEEP_INTERVAL]
    /\ lastSet' = Stale(lastSet)
    /\ ret' = [op |-> "sweep", at |-> now]
    /\ UNCHANGED <<now, calls, started, policyIn, policyOut, pureVars, widgetVars>>

\* time passes over several sweep periods: an interval that is due fires
\* first

AdvanceSweep ==
    /\ sweepTimer.due > now
    /\ TickTo(Ms(30 * 1000), MaxSteps * Ms(60 * 1000))
    /\ UNCHANGED <<apiCache, ret, calls, started, policyIn, policyOut, sweepTimer, pureVars, widgetVars>>

---------------------------------------------------------------------------
(* fetchFromAPI as the harness calls it, and the network's answers *)

\* arguments handed to fetchFromAPI by the harness: the URL, and the cache
\* duration in seconds
CallDurations == {0, Sec(1)}

\* The record of a finished invocation is kept until another invocation
\* starts or finishes: at most one finished record is on display at a time.
Settle(c, call) ==
    [b \in CallIds |->
        IF b = c THEN call
        ELSE IF Finished(call) /\ Finished(calls[b]) THEN IdleCall
        ELSE calls[b]]

\* a new invocation takes the lowest free slot
FetchFromAPI(c, url, useCache, cacheDuration) ==
    /\ Finished(calls[c])
    /\ \A b \in CallIds : b < c => ~Finished(calls[b])
    /\ started < MaxStarted
    /\ started' = started + 1
    /\ calls' = [b \in CallIds |->
                    IF b = c
                    THEN fetchFromAPI_start(apiCache, url, useCache, cacheDuration, now)
                    ELSE IF Finished(calls[b]) THEN IdleCall ELSE calls[b]]
    /\ apiCache' = IF useCache THEN getCachedData_cache(apiCache, url, now)
                   ELSE apiCache
    /\ lastSet' = Stale(lastSet)
    /\ UNCHANGED <<now, ret, policyIn, policyOut, sweepTimer, pureVars, widgetVars>>

\* await fetch(url, ...) settles
DirectResponds(c, response) ==
    /\ ~MicrotaskPending
    /\ calls[c].pc = "direct"
    /\ calls' = Settle(c, IF ok(response)
                    THEN [calls[c] EXCEPT !.pc = "json", !.response = response]
                    ELSE catchDirect([calls[c] EXCEPT !.response = response],
                                     HttpError(response)))
    /\ UNCHANGED <<now, apiCache, lastSet, ret, started, policyIn, policyOut, sweepTimer, pureVars, widgetVars>>

DirectRejects(c, error) ==
    /\ ~MicrotaskPending
    /\ calls[c].pc = "direct"
    /\ calls' = Settle(c, catchDirect(calls[c], error))
    /\ UNCHANGED <<now, apiCache, lastSet, ret, started, policyIn, policyOut, sweepTimer, pureVars, widgetVars>>

\* await response.json() settles
JsonResolves(c, data) ==
    /\ ~MicrotaskPending
    /\ calls[c].pc = "json"
    /\ apiCache' = cacheAfterSuccess(apiCache, calls[c], data, now)
    /\ calls' = Settle(c, succeed(calls[c], data))
    /\ lastSet' = Stale(lastSet)
    /\ UNCHANGED <<now, ret, started, policyIn, policyOut, sweepTimer, pureVars, widgetVars>>

JsonRejects(c, error) ==
    /\ ~MicrotaskPending
    /\ calls[c].pc = "json"
    /\ calls' = Settle(c, catchDirect(calls[c], error))
    /\ UNCHANGED <<now, apiCache, lastSet, ret, started, policyIn, policyOut, sweepTimer, pureVars, widgetVars>>

\* await fetch(CORS_PROXY + url, ...) settles
ProxyResponds(c, response) ==
    /\ ~MicrotaskPending
    /\ calls[c].pc = "proxy"
    /\ calls' = Settle(c, IF ok(response)
                    THEN [calls[c] EXCEPT !.pc = "proxyJson"]
                    ELSE catchProxy(calls[c], HttpError(response)))
    /\ UNCHANGED <<now, apiCache, lastSet, ret, started, policyIn, policyOut, sweepTimer, pureVars, widgetVars>>

ProxyRejects(c, error) ==
    /\ ~MicrotaskPending
    /\ calls[c].pc = "proxy"
    /\ calls' = Settle(c, catchProxy(calls[c], error))
    /\ UNCHANGED <<now, apiCache, lastSet, ret, started, policyIn, policyOut, sweepTimer, pureVars, widgetVars>>

\* await proxyResponse.json() settles
ProxyJsonResolves(c, data) ==
    /\ ~MicrotaskPending
    /\ calls[c].pc = "proxyJson"
    /\ apiCache' = cacheAfterSuccess(apiCache, calls[c], data, now)
    /\ calls' = Settle(c, succeed(calls[c], data))
    /\ lastSet' = Stale(lastSet)
    /\ UNCHANGED <<now, ret, started, policyIn, policyOut, sweepTimer, pureVars, widgetVars>>

ProxyJsonRejects(c, error) ==
    /\ ~MicrotaskPending
    /\ calls[c].pc = "proxyJson"
    /\ calls' = Settle(c, catchProxy(calls[c], error))
    /\ UNCHANGED <<now, apiCache, lastSet, ret, started, policyIn, policyOut, sweepTimer, pureVars, widgetVars>>

---------------------------------------------------------------------------
(* The dashboard store: dashboardStore.js lines 7-65.  Of a widget the      *)
(* model keeps what the fetch cycle reads and writes.                       *)

InitWidgets ==
    /\ widgets = << >>
    /\ mounts = << >>
    /\ cycles = [c \in CallIds |-> NoCycle]

\* Date.now().toString(): the clock in whole milliseconds, as a string
newId(t) == ToString(t \div 3)

addWidget(ws, config, t) ==
    Append(ws, [id |-> newId(t), name |-> config.name, type |-> config.type,
                apiUrl |-> config.apiUrl,
                refreshInterval |-> config.refreshInterval,
                selectedFields |-> config.selectedFields,
                data |-> JNull, loading |-> FALSE, error |-> JNull,
                lastFetched |-> JNull])

removeWidget(ws, widgetId) ==
    SelectSeq(ws, LAMBDA w : w.id # widgetId)

\* { ...w, ...updates }: the one caller, handleSaveSettings, passes name and
\* refreshInterval
updateWidget(ws, widgetId, updates) ==
    [i \in 1..Len(ws) |->
        IF ws[i].id = widgetId
        THEN [ws[i] EXCEPT !.name = updates.name,
                           !.refreshInterval = updates.refreshInterval]
        ELSE ws[i]]

updateWidgetData(ws, widgetId, data, error, t) ==
    [i \in 1..Len(ws) |->
        IF ws[i].id = widgetId
        THEN [ws[i] EXCEPT !.data = data, !.error = error, !.loading = FALSE,
                           !.lastFetched = JNum(t \div 3)]
        ELSE ws[i]]

setWidgetLoading(ws, widgetId, loading) ==
    [i \in 1..Len(ws) |->
        IF ws[i].id = widgetId THEN [ws[i] EXCEPT !.loading = loading] ELSE ws[i]]

---------------------------------------------------------------------------
(* WidgetContainer: fetchData (lines 23-67) and the auto-refresh effect     *)
(* (lines 70-85)                                                            *)

NoTimer == [on |-> FALSE]
NoShown == [none |-> TRUE]

\* the widget prop as a closure captures it
Props(w) ==
    [id |-> w.id, name |-> w.name, type |-> w.type, apiUrl |-> w.apiUrl,
     refreshInterval |-> w.refreshInterval, selectedFields |-> w.selectedFields]

\* setInterval(..., widget.refreshInterval * 1000), when the interval is a
\* positive number
newTimer(refreshInterval, t) ==
    IF JsGt(refreshInterval, 0)
    THEN [on |-> TRUE, due |-> t + Ms(refreshInterval * 1000),
          period |-> Ms(refreshInterval * 1000)]
    ELSE NoTimer

\* (mutant) the request made synchronously: nothing else runs while a
\* request is out
FreeSlot_blocking(c) ==
    /\ \A b \in CallIds : cycles[b] = NoCycle /\ Finished(calls[b])
    /\ c = 1

\* the lowest invocation slot that is free
FreeSlot(c) ==
    /\ cycles[c] = NoCycle /\ Finished(calls[c])
    /\ \A b \in CallIds : b < c => ~(cycles[b] = NoCycle /\ Finished(calls[b]))

\* fetchData(skipCache) up to its await, run with the props `widget`
fetchData(c, widget, skipCache, ws) ==
    LET cacheDuration == cacheDurationFor(widget.refreshInterval, skipCache) IN
    IF widget.apiUrl = ""
    THEN /\ widgets' = ws
         /\ UNCHANGED <<apiCache, calls, cycles>>
    ELSE /\ widgets' = setWidgetLoading(ws, widget.id, TRUE)
         /\ calls' = [calls EXCEPT ![c] =
                fetchFromAPI_start(apiCache, widget.apiUrl, ~skipCache,
                                   cacheDuration, now)]
         /\ apiCache' = IF ~skipCache
                        THEN getCachedData_cache(apiCache, widget.apiUrl, now)
                        ELSE apiCache
         /\ cycles' = [cycles EXCEPT ![c] =
                [widget |-> widget, skipCache |-> skipCache, startedAt |-> now,
                 cacheDuration |-> cacheDuration]]

\* the rest of fetchData, lines 51-66, once fetchFromAPI has settled; a
\* rejected fetchFromAPI ends the cycle with the store untouched
fetchData_resume(ws, cycle, call, t) ==
    IF call.pc = "rejected" THEN ws
    ELSE IF call.result.success
    THEN updateWidgetData(ws, cycle.widget.id,
             IF cycle.widget.selectedFields # << >>
             THEN transformAPIData(call.result.data, cycle.widget.selectedFields,
                                   cycle.widget.type)
             ELSE call.result.data,
             JNull, t)
    ELSE updateWidgetData(ws, cycle.widget.id, JNull, call.result.error, t)

\* what the Add Widget form can submit
WidgetIntervals == {10, 60}
FieldSelections == { <<[path |-> "price", displayName |-> "Price"]>> }
WidgetConfigs ==
    [name : {"A"}, type : {"card"}, apiUrl : {"u1"}, refreshInterval : WidgetIntervals,
     selectedFields : FieldSelections]

\* Dashboard.handleAddWidget: the store gains the widget, its container
\* mounts and the effect runs (first fetch, timer)
AddWidget(c, config) ==
    /\ ~MicrotaskPending
    /\ Len(widgets) < MaxWidgets
    /\ FreeSlot(c)
    /\ LET ws == addWidget(widgets, config, now)
           w == ws[Len(ws)]
       IN  /\ fetchData(c, Props(w), FALSE, ws)
           /\ mounts' = Append(mounts,
                  [effect |-> Props(w), timer |-> newTimer(w.refreshInterval, now),
                   shown |-> NoShown])
    /\ UNCHANGED <<now, lastSet, ret, started, policyIn, policyOut, sweepTimer, pureVars>>

\* (mutant) refreshInterval left out of the dependency list
effectDeps_noInterval(w) == <<w.id, w.apiUrl>>

\* the dependency list of the effect, line 85
effectDeps(w) == <<w.id, w.apiUrl, w.refreshInterval>>

\* handleDelete, confirmed: the store drops the widget; its container
\* unmounts and the effect's cleanup clears the interval.  A fetchData that
\* is awaiting goes on.
RemoveWidget(i) ==
    /\ ~MicrotaskPending
    /\ i \in 1..Len(widgets)
    /\ widgets' = removeWidget(widgets, widgets[i].id)
    /\ mounts' = LET keep == { j \in 1..Len(widgets) : widgets[j].id # widgets[i].id }
                     nth(k) == CHOOSE j \in keep : Cardinality({ h \in keep : h < j }) = k - 1
                 IN  [k \in 1..Cardinality(keep) |-> mounts[nth(k)]]
    /\ UNCHANGED <<now, apiCache, lastSet, ret, calls, started, policyIn, policyOut, sweepTimer, pureVars,
                   cycles>>

\* handleSaveSettings: updateWidget(name, refreshInterval); the container
\* renders again and, when a dependency of the effect changed, the cleanup
\* clears the old interval and the effect runs again (fetch, new interval).
\* Otherwise the interval set up earlier stays, with the closure it has.
\* Widgets that share their id with another are not edited here.
SaveSettings(c, i, updates) ==
    /\ ~MicrotaskPending
    /\ i \in 1..Len(widgets)
    /\ \A j \in 1..Len(widgets) : widgets[j].id = widgets[i].id => j = i
    /\ LET ws == updateWidget(widgets, widgets[i].id, updates)
           w == ws[i]
       IN  IF effectDeps(w) # effectDeps(mounts[i].effect)
           THEN /\ FreeSlot(c)
                /\ fetchData(c, Props(w), FALSE, ws)
                /\ mounts' = [mounts EXCEPT ![i] =
                       [effect |-> Props(w), timer |-> newTimer(w.refreshInterval, now),
                        shown |-> mounts[i].shown]]
           ELSE /\ c = 1
                /\ widgets' = ws
                /\ UNCHANGED <<apiCache, calls, cycles, mounts>>
    /\ UNCHANGED <<now, lastSet, ret, started, policyIn, policyOut, sweepTimer, pureVars>>

\* the interval fires: fetchData() of the closure the effect created
TimerTick(c, i) ==
    /\ ~MicrotaskPending
    /\ i \in 1..Len(mounts)
    /\ mounts[i].timer.on /\ mounts[i].timer.due <= now
    /\ FreeSlot(c)
    /\ fetchData(c, mounts[i].effect, FALSE, widgets)
    /\ mounts' = [mounts EXCEPT ![i].timer.due = @ + mounts[i].timer.period]
    /\ UNCHANGED <<now, lastSet, ret, started, policyIn, policyOut, sweepTimer, pureVars>>

\* the "Refresh now" button: fetchData(true) with the current props
ManualRefresh(c, i) ==
    /\ ~MicrotaskPending
    /\ i \in 1..Len(widgets)
    /\ FreeSlot(c)
    /\ fetchData(c, Props(widgets[i]), TRUE, widgets)
    /\ UNCHANGED <<now, lastSet, ret, started, policyIn, policyOut, sweepTimer, pureVars, mounts>>

\* the awaiting fetchData continues
\* (history) which cycle's result the widget at each position shows: when
\* that cycle started, whether it was a manual refresh, and when its response
\* came from the network (for a cached result, when the entry was stored)
showResult(ms, ws, cycle, call, t) ==
    IF call.pc = "rejected" THEN ms
    ELSE [i \in 1..Len(ms) |->
            IF ws[i].id = cycle.widget.id
            THEN [ms[i] EXCEPT !.shown =
                     [startedAt |-> cycle.startedAt, manual |-> cycle.skipCache,
                      fetchedAt |-> IF call.result.success /\ call.result.cached
                                    THEN call.found.timestamp ELSE t]]
            ELSE ms[i]]

CycleResume(c) ==
    /\ cycles[c] # NoCycle
    /\ Finished(calls[c])
    /\ widgets' = fetchData_resume(widgets, cycles[c], calls[c], now)
    /\ mounts' = showResult(mounts, widgets, cycles[c], calls[c], now)
    /\ calls' = [calls EXCEPT ![c] = IdleCall]
    /\ cycles' = [cycles EXCEPT ![c] = NoCycle]
    /\ UNCHANGED <<now, apiCache, lastSet, ret, started, policyIn, policyOut, sweepTimer, pureVars>>

\* time passes on the dashboard: timers that are due fire first
WidgetStep == Ms(5000)

AdvanceWidgets ==
    /\ \A i \in 1..Len(mounts) : mounts[i].timer.on => mounts[i].timer.due > now
    /\ Tick(WidgetStep)
    /\ UNCHANGED <<apiCache, ret, calls, started, policyIn, policyOut, sweepTimer, pureVars, widgetVars>>

---------------------------------------------------------------------------
(* Specifications *)

Init ==
    /\ now = 0
    /\ InitCache
    /\ InitCalls
    /\ InitPolicy
    /\ InitWidgets
    /\ InitPure

\* the cache operations on their own
NextCache ==
    \/ Advance
    \/ \E u \in URLs, v \in Bodies, d \in HarnessDurations : CacheSet(u, v, d)
    \/ \E u \in URLs : CacheGet(u)
    \/ CacheSweep
    \/ \E u \in URLs : CacheClearUrl(u)
    \/ CacheClearAll

SpecCache == Init /\ [][NextCache]_vars

\* entries that are stored and never read again, under the sweep interval
NextSweep ==
    \/ AdvanceSweep
    \/ SweepTimerFires
    \/ \E u \in URLs, v \in Bodies, d \in HarnessDurations : CacheSet(u, v, d)

SpecSweep == Init /\ [][NextSweep]_vars

\* the duration policy on its own
NextPolicy ==
    \E R \in Intervals, skipCache \in BOOLEAN : ComputeDuration(R, skipCache)

SpecPolicy == Init /\ [][NextPolicy]_vars

\* getNestedValue on its own
NextResolve ==
    \E obj \in ResolveValues, path \in ResolvePaths : Resolve(obj, path)

SpecResolve == Init /\ [][NextResolve]_vars

\* transformAPIData on its own
NextTransform ==
    \E data \in TransformData, fieldMappings \in TransformFields,
       widgetType \in {"table", "chart", "card"} :
        Transform(data, fieldMappings, widgetType)

SpecTransform == Init /\ [][NextTransform]_vars

\* exploreJSONPaths on its own
NextExplore ==
    \E obj \in ExploreValues, prefix \in {"", "p"}, maxDepth \in {0, 1, 2, DefaultMaxDepth} :
        Explore(obj, prefix, maxDepth)

SpecExplore == Init /\ [][NextExplore]_vars

\* exploreJSONPaths, then getNestedValue on the paths it returned
MaxDescriptors == 4

NextRoundTrip ==
    \/ NextExplore
    \/ \E k \in 1..MaxDescriptors : ResolveDescriptor(k)

SpecRoundTrip == Init /\ [][NextRoundTrip]_vars

\* fetchFromAPI called with arbitrary arguments, against an arbitrary network
NextFetch ==
    \/ Advance
    \/ \E c \in CallIds, u \in {"u1"}, useCache \in BOOLEAN, d \in CallDurations :
          FetchFromAPI(c, u, useCache, d)
    \/ \E c \in CallIds, r \in Responses : DirectResponds(c, r)
    \/ \E c \in CallIds, e \in FetchRejections : DirectRejects(c, e)
    \/ \E c \in CallIds, v \in Bodies : JsonResolves(c, v)
    \/ \E c \in CallIds, e \in JsonRejections : JsonRejects(c, e)
    \/ \E c \in CallIds, r \in Responses : ProxyResponds(c, r)
    \/ \E c \in CallIds, e \in FetchRejections : ProxyRejects(c, e)
    \/ \E c \in CallIds, v \in Bodies : ProxyJsonResolves(c, v)
    \/ \E c \in CallIds, e \in JsonRejections : ProxyJsonRejects(c, e)

SpecFetch == Init /\ [][NextFetch]_vars

\* the dashboard: widgets running their fetch cycles over the shared cache,
\* against a network that answers 200 with a JSON object, or 404
WidgetResponses == { r \in Responses : r.status \in {200, 404} }
WidgetBodies == { v \in Bodies : v.t = "obj" }

NextWidgets ==
    \/ AdvanceWidgets
    \/ \E c \in CallIds, config \in WidgetConfigs : AddWidget(c, config)
    \/ \E c \in CallIds, i \in 1..MaxWidgets : TimerTick(c, i)
    \/ \E c \in CallIds, i \in 1..MaxWidgets : ManualRefresh(c, i)
    \/ \E c \in CallIds : CycleResume(c)
    \/ \E c \in CallIds, r \in WidgetResponses : DirectResponds(c, r)
    \/ \E c \in CallIds, v \in WidgetBodies : JsonResolves(c, v)

SpecWidgets == Init /\ [][NextWidgets]_vars

\* the dashboard with its widgets deleted and edited while they refresh
SettingsUpdates == [name : {"A", "B"}, refreshInterval : WidgetIntervals]

\* widgets as first configured, and the network answering 200
LifecycleConfigs == { config \in WidgetConfigs : config.refreshInterval = 10 }
OkResponses == { r \in Responses : ok(r) }

NextLifecycle ==
    \/ AdvanceWidgets
    \/ \E c \in CallIds, config \in LifecycleConfigs : AddWidget(c, config)
    \/ \E i \in 1..MaxWidgets : RemoveWidget(i)
    \/ \E c \in CallIds, i \in 1..MaxWidgets, updates \in SettingsUpdates :
          SaveSettings(c, i, updates)
    \/ \E c \in CallIds, i \in 1..MaxWidgets : TimerTick(c, i)
    \/ \E c \in CallIds : CycleResume(c)
    \/ \E c \in CallIds, r \in OkResponses : DirectResponds(c, r)
    \/ \E c \in CallIds, v \in WidgetBodies : JsonResolves(c, v)

SpecLifecycle == Init /\ [][NextLifecycle]_vars

\* one widget on an endpoint that may never answer (u2), the others on an
\* endpoint that answers (u1).  The event loop runs a continuation that is
\* ready and a timer that is due; only the requests to u1 are sure to be
\* answered.
SlowUrl == "u2"
NonBlockingConfigs ==
    { [name |-> "A", type |-> "card", apiUrl |-> SlowUrl, refreshInterval |-> 60,
       selectedFields |-> <<[path |-> "price", displayName |-> "Price"]>>],
      [name |-> "B", type |-> "card", apiUrl |-> "u1", refreshInterval |-> 10,
       selectedFields |-> <<[path |-> "price", displayName |-> "Price"]>>] }

NextNonBlocking ==
    \/ AdvanceWidgets
    \/ \E c \in CallIds, config \in NonBlockingConfigs :
          /\ config.apiUrl = SlowUrl =>
                 \A i \in 1..Len(widgets) : widgets[i].apiUrl # SlowUrl
          /\ AddWidget(c, config)
    \/ \E c \in CallIds, i \in 1..MaxWidgets : TimerTick(c, i)
    \/ \E c \in CallIds : CycleResume(c)
    \/ \E c \in CallIds, r \in OkResponses : DirectResponds(c, r)
    \/ \E c \in CallIds, v \in WidgetBodies : JsonResolves(c, v)

\* widgets as the store accepts and persists them: addWidget takes any
\* widget object, with or without selected fields
StoredConfigs ==
    [name : {"A"}, type : {"card", "chart"}, apiUrl : {"u1"}, refreshInterval : {10},
     selectedFields : (FieldSelections \cup { << >> })]

NextStored ==
    \/ AdvanceWidgets
    \/ \E c \in CallIds, config \in StoredConfigs : AddWidget(c, config)
    \/ \E c \in CallIds, i \in 1..MaxWidgets : TimerTick(c, i)
    \/ \E c \in CallIds : CycleResume(c)
    \/ \E c \in CallIds, r \in OkResponses : DirectResponds(c, r)
    \/ \E c \in CallIds, v \in WidgetBodies : JsonResolves(c, v)

SpecStored == Init /\ [][NextStored]_vars

\* what the settings form can store as refresh interval: the input's text
\* goes through parseInt, which gives NaN for an emptied input; min and max of
\* the input are not enforced on what is typed
IntervalUpdates == [name : {"A"}, refreshInterval : {NaN, 60, 240}]

NextIntervals ==
    \/ AdvanceWidgets
    \/ \E c \in CallIds, config \in LifecycleConfigs : AddWidget(c, config)
    \/ \E c \in CallIds, i \in 1..MaxWidgets, updates \in IntervalUpdates :
          SaveSettings(c, i, updates)
    \/ \E c \in CallIds, i \in 1..MaxWidgets : TimerTick(c, i)
    \/ \E c \in CallIds : CycleResume(c)
    \/ \E c \in CallIds, r \in OkResponses : DirectResponds(c, r)
    \/ \E c \in CallIds, v \in WidgetBodies : JsonResolves(c, v)

SpecIntervals == Init /\ [][NextIntervals]_vars

\* one widget, alone on its URL, over several of its refresh periods; every
\* request is answered within MaxLatency of being sent
LoneConfigs ==
    [name : {"A"}, type : {"card"}, apiUrl : {"u1"}, refreshInterval : {10, 20},
     selectedFields : FieldSelections]
MaxLatency == WidgetStep

AdvanceLone ==
    /\ \A i \in 1..Len(mounts) : mounts[i].timer.on => mounts[i].timer.due > now
    /\ \A c \in CallIds :
          cycles[c] # NoCycle => now + WidgetStep <= cycles[c].startedAt + MaxLatency
    /\ TickTo(WidgetStep, MaxSteps * Ms(20 * 1000) + WidgetStep)
    /\ UNCHANGED <<apiCache, ret, calls, started, policyIn, policyOut, sweepTimer, pureVars, widgetVars>>

NextLone ==
    \/ AdvanceLone
    \/ \E c \in CallIds, config \in LoneConfigs :
          /\ widgets = << >>
          /\ AddWidget(c, config)
    \/ \E c \in CallIds, i \in 1..MaxWidgets : TimerTick(c, i)
    \/ \E c \in CallIds, i \in 1..MaxWidgets : ManualRefresh(c, i)
    \/ \E c \in CallIds : CycleResume(c)
    \/ \E c \in CallIds, r \in WidgetResponses : DirectResponds(c, r)
    \/ \E c \in CallIds, v \in WidgetBodies : JsonResolves(c, v)

SpecLone == Init /\ [][NextLone]_vars

FairNonBlocking ==
    /\ \A c \in CallIds : WF_vars(CycleResume(c))
    /\ \A c \in CallIds :
          WF_vars(calls[c].url # SlowUrl /\ \E r \in OkResponses : DirectResponds(c, r))
    /\ \A c \in CallIds :
          WF_vars(calls[c].url # SlowUrl /\ \E v \in WidgetBodies : JsonResolves(c, v))
    /\ \A i \in 1..MaxWidgets :
          WF_vars(\E c \in CallIds :
                     /\ TimerTick(c, i)
                     /\ mounts[i].effect.apiUrl # SlowUrl)

SpecNonBlocking == Init /\ [][NextNonBlocking]_vars /\ FairNonBlocking

---------------------------------------------------------------------------
(* Properties of the cache (SpecCache) *)

\* C1: setCachedData(u, V, D) with D > 0 followed immediately by
\* getCachedData(u) returns V; a getCachedData(u) issued after D has elapsed,
\* with no setCachedData(u) in between, returns nothing (null).
C1_SetThenGet ==
    (ret.op = "get" /\ ret.since # NoSet /\ ret.since.duration > 0) =>
        /\ ret.since.fresh => ret.value = ret.since.data
        /\ ret.at > ret.since.at + ret.since.duration => ret.value = JNull

\* a get that came more than D after the set of a non-null value
C1_Witness ==
    /\ ret.op = "get" /\ ret.since # NoSet /\ ret.since.duration > 0
    /\ ret.since.data # JNull
    /\ ret.at > ret.since.at + ret.since.duration
    /\ ret.value = JNull

\* C15: after clearExpiredCache runs at time now, the cache holds exactly the
\* entries that had now <= expiresAt before the sweep, each unchanged.
C15_SweepKeepsExactlyTheLive ==
    [][(ret' # ret /\ ret'.op = "sweep") =>
          apiCache' = [u \in URLs |->
                          IF apiCache[u] # NoEntry /\ now <= apiCache[u].expiresAt
                          THEN apiCache[u] ELSE NoEntry]]_vars

\* a sweep has just run: of two urls that were set, one entry expiring at
\* this very reading is still there and the other is gone
C15_Witness ==
    /\ ret.op = "sweep"
    /\ \E u, v \in URLs :
          /\ apiCache[u] # NoEntry /\ apiCache[u].expiresAt = now
          /\ lastSet[v] # NoSet /\ apiCache[v] = NoEntry
          /\ now > lastSet[v].at + lastSet[v].duration

\* C17: getCachedData(url) returns the entry's data exactly when an entry
\* exists with now <= expiresAt; when the entry exists with now > expiresAt it
\* removes that entry and returns nothing; the entries of other urls are never
\* changed.
C17_GetReturnsLiveEvictsExpired ==
    [][(ret' # ret /\ ret'.op = "get") =>
          LET url == ret'.url
              cached == apiCache[url]
          IN  /\ ret'.at = now
              /\ (cached # NoEntry /\ now <= cached.expiresAt) =>
                     (ret'.value = cached.data /\ apiCache' = apiCache)
              /\ (cached # NoEntry /\ now > cached.expiresAt) =>
                     (ret'.value = JNull /\ apiCache' = [apiCache EXCEPT ![url] = NoEntry])
              /\ cached = NoEntry => (ret'.value = JNull /\ apiCache' = apiCache)]_vars

\* a get found its entry expired and removed it, the other url keeping its
\* entry
C17_Witness ==
    /\ ret.op = "get" /\ ret.value = JNull
    /\ ret.since # NoSet /\ ret.since.data # JNull
    /\ ret.at = now /\ ret.at > ret.since.at + ret.since.duration
    /\ apiCache[ret.url] = NoEntry
    /\ \E v \in URLs : v # ret.url /\ apiCache[v] # NoEntry

\* C18 (as claimed): after setCachedData(u, V, 0) every getCachedData(u) that
\* follows, even one at the same clock reading, returns nothing.
C18_ZeroDurationMissesAtOnce ==
    (ret.op = "get" /\ ret.since # NoSet /\ ret.since.duration = 0) =>
        ret.value = JNull

\* C18 (amended): after setCachedData(u, V, 0) a getCachedData(u) at a later
\* clock reading returns nothing; one issued right after the set at the same
\* clock reading still returns V.
C18_ZeroDurationMissesLater ==
    (ret.op = "get" /\ ret.since # NoSet /\ ret.since.duration = 0) =>
        /\ ret.at > ret.since.at => ret.value = JNull
        /\ ret.since.fresh => ret.value = ret.since.data

\* a get one clock reading or more after a set of V with duration 0
C18_Witness ==
    /\ ret.op = "get" /\ ret.since # NoSet /\ ret.since.duration = 0
    /\ ret.since.data # JNull
    /\ ret.at > ret.since.at
    /\ ret.value = JNull

\* C16: an entry nobody reads again is removed by the sweep interval: while
\* the interval keeps firing, an entry whose expiry has passed is in the
\* cache for at most one sweep period (60 seconds) after its expiry.
C16_ExpiredGoneWithinOnePeriod ==
    \A u \in URLs :
        (apiCache[u] # NoEntry /\ now > apiCache[u].expiresAt) =>
            now - apiCache[u].expiresAt <= 3 * 60000

\* the interval has fired more than once and an entry that was stored after
\* its first firing, and never read, is gone
C16_Witness ==
    /\ ret.op = "sweep" /\ ret.at = now /\ now > 3 * 60000
    /\ \E u \in URLs :
          /\ lastSet[u] # NoSet /\ lastSet[u].at >= 3 * 60000
          /\ apiCache[u] = NoEntry

---------------------------------------------------------------------------
(* Properties of the duration policy (SpecPolicy) *)

Min(a, b) == IF a < b THEN a ELSE b

\* C4: the duration is 0 when skipCache is set; otherwise min(5, R/3) for
\* R < 30, R/4 for 30 <= R < 120, min(30, R/4) for R >= 120; R = 20 gives 5,
\* R = 60 gives 15, R = 300 gives 30.  (Twelfths of a second: R/3 = 4R/12.)
C4_AdaptiveDuration ==
    (policyIn # NoPolicy /\ ~IsNaN(policyIn.R)) =>
        LET R == policyIn.R IN
        /\ policyIn.skipCache => policyOut = 0
        /\ (~policyIn.skipCache /\ R < 30) => policyOut = Min(12 * 5, 4 * R)
        /\ (~policyIn.skipCache /\ 30 <= R /\ R < 120) => policyOut = 3 * R
        /\ (~policyIn.skipCache /\ R >= 120) => policyOut = Min(12 * 30, 3 * R)
        /\ (~policyIn.skipCache /\ R = 20) => policyOut = 12 * 5
        /\ (~policyIn.skipCache /\ R = 60) => policyOut = 12 * 15
        /\ (~policyIn.skipCache /\ R = 300) => policyOut = 12 * 30

C4_Witness ==
    /\ policyIn # NoPolicy
    /\ policyIn.R = 300 /\ ~policyIn.skipCache
    /\ policyOut = Sec(30)

\* C5: when the cache is not skipped the duration is at most R/4
\* (twelfths of a second: R/4 = 3R/12).
C5_AtMostQuarter ==
    (policyIn # NoPolicy /\ ~IsNaN(policyIn.R) /\ ~policyIn.skipCache) =>
        policyOut <= 3 * policyIn.R

---------------------------------------------------------------------------
(* Properties of fetchFromAPI (SpecFetch) *)

\* C2: with useCache and an unexpired entry for the url, whatever its data,
\* fetchFromAPI returns at once {success, data of the entry, cached: true}
\* and issues no network request.
C2_CacheHitNoNetwork ==
    \A c \in CallIds :
        calls[c].found # NoEntry =>
            /\ calls[c].pc = "done"
            /\ calls[c].result = Success(calls[c].found.data, TRUE)
            /\ calls[c].requests = << >>

\* C6: a returned FetchResult has exactly one of data and error: success
\* implies data present and error absent, failure implies error a string and
\* data absent.
C6_ExactlyOneOfDataError ==
    \A c \in CallIds :
        calls[c].result # NoResult =>
            LET r == calls[c].result IN
            /\ r.success => (r.data # JNull /\ r.error = JNull)
            /\ ~r.success => (r.error.t = "str" /\ r.data = JNull)

\* C7: fetchFromAPI never rejects, whatever the network does, and an error
\* that is not CORS/network-type gives {success: false, error: its message},
\* or the default message when it has none.
C7_NeverRejects ==
    \A c \in CallIds :
        /\ calls[c].pc # "rejected"
        /\ (calls[c].pc = "done" /\ calls[c].caught # NoError
            /\ Len(calls[c].requests) = 1) =>
               calls[c].result =
                   Failure(IF calls[c].caught.k = "object" /\ calls[c].caught.message # ""
                           THEN calls[c].caught.message
                           ELSE "Failed to fetch data from API")

\* C8: a direct response with a non-2xx status gives a failure whose error
\* embeds the status code and the status text, and no further request.
C8_Non2xxNoRetry ==
    \A c \in CallIds :
        (calls[c].response # NoResponse
         /\ ~(calls[c].response.status \in 200..299)) =>
            /\ calls[c].requests = <<calls[c].url>>
            /\ calls[c].pc = "done"
            /\ calls[c].result =
                   Failure("HTTP " \o ToString(calls[c].response.status)
                           \o ": " \o calls[c].response.statusText)

\* C9: one call issues at most two requests, the direct one and then at most
\* one through the proxy prefix, and the proxy request is issued only after
\* the direct attempt failed with an error classified CORS/network-type.
C9_AtMostOneProxyRetry ==
    \A c \in CallIds :
        LET call == calls[c] IN
        /\ Len(call.requests) <= 2
        /\ Len(call.requests) >= 1 => call.requests[1] = call.url
        /\ Len(call.requests) = 2 =>
               /\ call.requests[2] = CORS_PROXY \o call.url
               /\ call.caught # NoError /\ call.caught.k = "object"
               /\ \/ call.caught.name = "TypeError"
                  \/ Includes(call.caught.message, "CORS")

\* a call that went through the proxy and came back
C9_Witness ==
    \E c \in CallIds :
        /\ calls[c].pc = "done"
        /\ Len(calls[c].requests) = 2
        /\ calls[c].caught.name = "TypeError"

\* C10: when a call with useCache returns a fetched response (direct or
\* through the proxy), the cache holds it under the request URL with the given
\* duration at the return, and a getCachedData(url) then yields it.
C10_SuccessIsCached ==
    [][\A c \in CallIds :
          (/\ calls[c].pc \in {"json", "proxyJson"}
           /\ calls'[c].pc = "done"
           /\ calls'[c].result.success
           /\ calls[c].useCache) =>
              /\ apiCache'[calls[c].url] =
                     [data |-> calls'[c].result.data, timestamp |-> now',
                      expiresAt |-> now' + 250 * calls[c].cacheDuration]
              /\ getCachedData_ret(apiCache', calls[c].url, now')
                     = calls'[c].result.data]_vars

\* a proxy-fallback success just returned and is in the cache
C10_Witness ==
    \E c \in CallIds :
        /\ calls[c].pc = "done" /\ calls[c].useCache
        /\ calls[c].result.success /\ ~calls[c].result.cached
        /\ Len(calls[c].requests) = 2
        /\ apiCache[calls[c].url] # NoEntry
        /\ apiCache[calls[c].url].data = calls[c].result.data
        /\ apiCache[calls[c].url].timestamp = now

\* C19: concurrent fetches of one url are not de-duplicated in flight: every
\* call that finds no live entry sends its own request, whatever other calls
\* are in flight for the same url, and a call is served from the cache only
\* when it found an entry there, which sends no request.
C19_NoInFlightDeduplication ==
    \A c \in CallIds :
        LET call == calls[c] IN
        call.pc # "idle" =>
            /\ call.found = NoEntry =>
                   (Len(call.requests) >= 1 /\ call.requests[1] = call.url)
            /\ (call.result # NoResult /\ call.result.success /\ call.result.cached) =>
                   (call.found # NoEntry /\ call.requests = << >>)

\* two cache-using calls for the same url in flight at once, each with its
\* own request
C19_Witness ==
    \E c, b \in CallIds :
        /\ c # b /\ calls[c].url = calls[b].url
        /\ calls[c].useCache /\ calls[b].useCache
        /\ calls[c].pc = "direct" /\ calls[b].pc = "direct"
        /\ calls[c].requests = <<calls[c].url>>
        /\ calls[b].requests = <<calls[b].url>>

\* C11: a call with useCache = false never reads the cache and never writes
\* it: it issues the network request, answers cached = false on success, and
\* no step of the call changes any cache entry.
C11_BypassLeavesCacheAlone ==
    [][\A c \in CallIds :
          (calls'[c] # calls[c] /\ calls'[c].pc # "idle" /\ ~calls'[c].useCache) =>
              /\ apiCache' = apiCache
              /\ calls'[c].found = NoEntry
              /\ Len(calls'[c].requests) >= 1
              /\ calls'[c].requests[1] = calls'[c].url
              /\ calls'[c].result # NoResult /\ calls'[c].result.success =>
                     calls'[c].result.cached = FALSE]_vars

\* a bypassing call came back with a response other than the unexpired one
\* the cache holds for its url
C11_Witness ==
    \E c \in CallIds :
        /\ calls[c].pc = "done" /\ ~calls[c].useCache
        /\ calls[c].result.success /\ ~calls[c].result.cached
        /\ apiCache[calls[c].url] # NoEntry
        /\ ~JsGt(now, apiCache[calls[c].url].expiresAt)
        /\ Truthy(apiCache[calls[c].url].data)
        /\ apiCache[calls[c].url].data # calls[c].result.data

---------------------------------------------------------------------------
(* Properties of the widgets' fetch cycles (SpecWidgets) *)

\* C3: whenever a widget's fetch cycle is served from the shared cache, the
\* age of the served data (now minus the time it was fetched) is at most the
\* cache duration computed from that widget's own refresh interval.
C3_ServedAgeWithinOwnDuration ==
    \A c \in CallIds :
        (/\ cycles[c] # NoCycle
         /\ calls[c].pc = "done"
         /\ calls[c].result.success
         /\ calls[c].result.cached) =>
            now - calls[c].found.timestamp <= Times1000(cycles[c].cacheDuration)

---------------------------------------------------------------------------
(* Properties of deleting and editing widgets (SpecLifecycle) *)

\* C12: when a widget is deleted (removeWidget) or edited (updateWidget from
\* the settings panel), the cache entry of its apiUrl is evicted: right after
\* the delete or edit the cache holds no entry for that URL.
C12_EvictedOnDeleteOrEdit ==
    [][\A i \in 1..Len(widgets) :
          LET w == widgets[i]
              deleted == \A j \in 1..Len(widgets') : widgets'[j].id # w.id
              edited == \E j \in 1..Len(widgets') :
                            /\ widgets'[j].id = w.id
                            /\ \/ widgets'[j].name # w.name
                               \/ widgets'[j].refreshInterval # w.refreshInterval
          IN  (deleted \/ edited) => apiCache'[w.apiUrl] = NoEntry]_vars

\* C13: once a widget is removed or any part of its configuration (apiUrl,
\* refreshInterval, selectedFields, kind, name) has changed, the timer of the
\* previous configuration is cancelled: a cycle started by a timer tick runs
\* with the configuration some widget of the store has at that moment.
C13_TickRunsCurrentConfiguration ==
    [][\A c \in CallIds :
          (/\ cycles[c] = NoCycle /\ cycles'[c] # NoCycle
           /\ Len(mounts') = Len(mounts)
           /\ \E i \in 1..Len(mounts) :
                  /\ mounts'[i].effect = mounts[i].effect
                  /\ mounts[i].timer.on /\ mounts'[i].timer.on
                  /\ mounts'[i].timer.due > mounts[i].timer.due) =>
              \E j \in 1..Len(widgets) : Props(widgets[j]) = cycles'[c].widget]_vars

\* C14: a fetch that was in flight when its widget was removed or
\* reconfigured is discarded when it completes: a cycle whose configuration
\* (id, apiUrl, refreshInterval, selectedFields, kind) no widget of the store
\* has any more leaves the store as it is.
C14_StaleResultDiscarded ==
    [][\A c \in CallIds :
          (/\ cycles[c] # NoCycle /\ cycles'[c] = NoCycle
           /\ ~\E j \in 1..Len(widgets) :
                   [Props(widgets[j]) EXCEPT !.name = ""]
                       = [cycles[c].widget EXCEPT !.name = ""]) =>
              widgets' = widgets]_vars

---------------------------------------------------------------------------
(* Properties of widgets side by side (SpecNonBlocking) *)

\* C20: a widget whose request is pending, even for ever, does not block the
\* others: every other widget's timer that comes due fires, and every fetch
\* cycle of another widget completes once its own request is answered.
C20_OthersNotBlocked ==
    /\ \A i \in 1..MaxWidgets :
          (/\ i <= Len(mounts) /\ mounts[i].effect.apiUrl # SlowUrl
           /\ mounts[i].timer.on /\ mounts[i].timer.due <= now)
          ~> (i <= Len(mounts) /\ mounts[i].timer.on /\ mounts[i].timer.due > now)
    /\ \A c \in CallIds :
          (cycles[c] # NoCycle /\ cycles[c].widget.apiUrl # SlowUrl)
          ~> (cycles[c] = NoCycle)

\* the timer of B has fired and its cycle has completed, written to the
\* store, while the request of A is still out
C20_Witness ==
    /\ \E c \in CallIds :
          /\ cycles[c] # NoCycle /\ cycles[c].widget.apiUrl = SlowUrl
          /\ calls[c].pc = "direct"
    /\ \E i \in 1..Len(mounts) :
          /\ mounts[i].effect.apiUrl # SlowUrl
          /\ mounts[i].timer.on /\ mounts[i].timer.due > now
          /\ mounts[i].timer.due > mounts[i].timer.period + Ms(5000)
          /\ widgets[i].lastFetched = JNum(now \div 3)
          /\ ~widgets[i].loading
    /\ \A c \in CallIds : cycles[c] # NoCycle => cycles[c].widget.apiUrl = SlowUrl

---------------------------------------------------------------------------
(* Properties of getNestedValue (SpecResolve) *)

\* C21: with a non-empty path, getNestedValue returns nothing (undefined)
\* whenever the value looked into is not an object or array, scalar roots
\* such as 0, false and "" included, or the first key is missing from the
\* root object; {a: {b: [10, 20]}} at "a.b[1]" is 20 and {a: 1} at "a.b" is
\* nothing.
C21_AbsentOnFailedLookup ==
    (pureIn.fn = "getNestedValue" /\ pureIn.path # "") =>
        LET obj == pureIn.obj
            first == Head(split(pureIn.path))
        IN  /\ obj.t \in {"bool", "num", "str"} => pureOut = JUndef
            /\ (obj.t = "obj" /\ arrayMatch(first) = 0
                /\ \A i \in 1..Len(obj.o) : obj.o[i][1] # first) => pureOut = JUndef
            /\ (obj = JObj(<< <<"a", JNum(1)>> >>) /\ pureIn.path = "a.b") =>
                   pureOut = JUndef
            /\ (obj = JObj(<< <<"a", JObj(<< <<"b", JArr(<<JNum(10), JNum(20)>>)>> >>)>> >>)
                /\ pureIn.path = "a.b[1]") => pureOut = JNum(20)

\* C22: getNestedValue(V, path) with an empty path returns V itself, for
\* every JSON value V.
C22_EmptyPathIsIdentity ==
    (pureIn.fn = "getNestedValue" /\ pureIn.path = "") => pureOut = pureIn.obj

\* the empty path applied to an object and to an array
C22_Witness ==
    /\ pureIn.fn = "getNestedValue" /\ pureIn.path = ""
    /\ pureIn.obj.t \in {"obj", "arr"}
    /\ pureOut = pureIn.obj

---------------------------------------------------------------------------
(* Properties of transformAPIData (SpecTransform) *)

\* C23: when data is an array and fields are selected, the result has one
\* row per element, in input order, and each row maps every selected field's
\* displayName to that field's path resolved against that element alone, for
\* every widget kind (the array rule comes before the chart pivot).
C23_ArrayOneRowPerElement ==
    (/\ pureIn.fn = "transformAPIData" /\ pureIn.data.t = "arr"
     /\ pureIn.fieldMappings # << >>) =>
        /\ pureOut.t = "arr"
        /\ Len(pureOut.a) = Len(pureIn.data.a)
        /\ \A i \in 1..Len(pureOut.a) :
              /\ pureOut.a[i].t = "obj"
              /\ \A k \in 1..Len(pureIn.fieldMappings) :
                    GetProp(pureOut.a[i], pureIn.fieldMappings[k].displayName)
                        = getNestedValue(pureIn.data.a[i], pureIn.fieldMappings[k].path)

\* what counts as numeric: a number, or a text made of digits
C24_Numeric(v) == (v.t = "num" /\ ~IsNaN(v.n)) \/ (v.t = "str" /\ IsDigits(v.s))
C24_NumberOf(v) == IF v.t = "num" THEN v.n ELSE parseInt(v.s)

\* C24 (as claimed): for a single object, kind chart and more than one field,
\* the result has one row {name: displayName, value: number} per selected
\* field, in selection order; value is the resolved value as a number, and 0
\* whenever the resolved value is missing or not numeric.
C24_PivotValueZeroUnlessNumeric ==
    (/\ pureIn.fn = "transformAPIData" /\ pureIn.data.t = "obj"
     /\ pureIn.widgetType = "chart" /\ Len(pureIn.fieldMappings) > 1) =>
        /\ pureOut.t = "arr"
        /\ Len(pureOut.a) = Len(pureIn.fieldMappings)
        /\ \A k \in 1..Len(pureOut.a) :
              LET v == getNestedValue(pureIn.data, pureIn.fieldMappings[k].path) IN
              pureOut.a[k] =
                  JObj(<< <<"name", JStr(pureIn.fieldMappings[k].displayName)>>,
                          <<"value", JNum(IF C24_Numeric(v) THEN C24_NumberOf(v)
                                          ELSE 0)>> >>)

\* the digits a text starts with ("" when it starts with none)
RECURSIVE C24_LeadingDigits(_)
C24_LeadingDigits(str) ==
    IF str # "" /\ SubSeq(str, 1, 1) \in Digits
    THEN SubSeq(str, 1, 1) \o C24_LeadingDigits(SubSeq(str, 2, Len(str)))
    ELSE ""

\* the number read from the start of a value written out as text: a number
\* is itself, a text gives its leading digits, a list gives what its first
\* element gives, anything else gives nothing (0)
RECURSIVE C24_LeadingNumber(_)
C24_LeadingNumber(v) ==
    CASE v.t = "num" -> IF IsNaN(v.n) THEN 0 ELSE v.n
      [] v.t = "str" -> IF C24_LeadingDigits(v.s) = "" THEN 0
                        ELSE parseInt(C24_LeadingDigits(v.s))
      [] v.t = "arr" -> IF v.a = << >> THEN 0 ELSE C24_LeadingNumber(v.a[1])
      [] OTHER -> 0

\* C24 (amended): one row {name, value} per selected field, in selection
\* order; value is the number read from the start of the resolved value
\* written out as text ("12abc" gives 12, the list [5, 6] gives 5), and 0
\* when no number can be read there or the value is missing.
C24_PivotValueLeadingNumber ==
    (/\ pureIn.fn = "transformAPIData" /\ pureIn.data.t = "obj"
     /\ pureIn.widgetType = "chart" /\ Len(pureIn.fieldMappings) > 1) =>
        /\ pureOut.t = "arr"
        /\ Len(pureOut.a) = Len(pureIn.fieldMappings)
        /\ \A k \in 1..Len(pureOut.a) :
              LET v == getNestedValue(pureIn.data, pureIn.fieldMappings[k].path) IN
              pureOut.a[k] =
                  JObj(<< <<"name", JStr(pureIn.fieldMappings[k].displayName)>>,
                          <<"value", JNum(C24_LeadingNumber(v))>> >>)

\* a pivot with a text that starts with digits, and one with a list
C24_Witness ==
    /\ pureIn.fn = "transformAPIData" /\ pureIn.widgetType = "chart"
    /\ pureIn.data = QuoteA
    /\ pureIn.fieldMappings = <<Field("name", "name"), Field("vol", "vol")>>
    /\ pureOut = JArr(<< JObj(<< <<"name", JStr("name")>>, <<"value", JNum(12)>> >>),
                         JObj(<< <<"name", JStr("vol")>>, <<"value", JNum(0)>> >>) >>)

\* C25: for a single object and a table or card, or a chart with at most
\* one selected field, the result is exactly one row, holding one entry per
\* selected field, each resolved against the whole object.
C25_SingleRowEveryField ==
    (/\ pureIn.fn = "transformAPIData" /\ pureIn.data.t = "obj"
     /\ pureIn.fieldMappings # << >>
     /\ (pureIn.widgetType \in {"table", "card"} \/ Len(pureIn.fieldMappings) <= 1)) =>
        /\ pureOut.t = "arr"
        /\ Len(pureOut.a) = 1
        /\ pureOut.a[1].t = "obj"
        /\ Len(pureOut.a[1].o) = Len(pureIn.fieldMappings)
        /\ \A k \in 1..Len(pureIn.fieldMappings) :
              GetProp(pureOut.a[1], pureIn.fieldMappings[k].displayName)
                  = getNestedValue(pureIn.data, pureIn.fieldMappings[k].path)

---------------------------------------------------------------------------
(* Properties of exploreJSONPaths (SpecExplore) *)

\* how many "." and "[" a path holds: the levels below its first key
RECURSIVE C26_Levels(_)
C26_Levels(path) ==
    IF path = "" THEN 0
    ELSE (IF CharAt(path, 1) \in {".", "["} THEN 1 ELSE 0)
         + C26_Levels(SubSeq(path, 2, Len(path)))

\* C26: exploreJSONPaths returns on every JSON value; for an object it
\* emits one descriptor per key, with the key's path, the inferred type and
\* the scalar value; nothing is described below maxDepth levels of nesting;
\* and explore({a:1, b:{c:2}}, maxDepth 5) yields exactly a (number, 1),
\* b (object) and b.c (number, 2).
C26_OnePerKeyWithinDepth ==
    pureIn.fn = "exploreJSONPaths" =>
        /\ pureOut \in Seq({pureOut[i] : i \in DOMAIN pureOut})
        /\ \A i \in DOMAIN pureOut :
              C26_Levels(pureOut[i].path) <= pureIn.maxDepth + 1
        /\ (pureIn.obj.t = "obj" /\ pureIn.prefix = "") =>
              /\ \A i \in DOMAIN pureOut :
                    C26_Levels(pureOut[i].path) <= pureIn.maxDepth
              /\ \A k \in DOMAIN pureIn.obj.o :
                    LET key == pureIn.obj.o[k][1]
                        value == pureIn.obj.o[k][2]
                        scalar == typeOf(value) \notin {"object", "array"}
                    IN  Cardinality({ i \in DOMAIN pureOut :
                            /\ pureOut[i].path = key
                            /\ pureOut[i].type = typeOf(value)
                            /\ pureOut[i].sample = JUndef
                            /\ scalar => pureOut[i].value = value
                            /\ ~scalar => pureOut[i].value
                                             = JStr("{" \o typeOf(value) \o "}") }) = 1
        /\ (pureIn.obj = ExploreExample /\ pureIn.prefix = ""
                /\ pureIn.maxDepth = DefaultMaxDepth) =>
              pureOut = << Descriptor("a", JNum(1), "number", JUndef),
                           Descriptor("b", JStr("{object}"), "object", JUndef),
                           Descriptor("b.c", JNum(2), "number", JUndef) >>

\* four levels of nesting explored with maxDepth 1: the cap cuts after a.a
C26_Witness ==
    /\ pureIn.fn = "exploreJSONPaths" /\ pureIn.obj = ExploreChain
    /\ pureIn.prefix = "" /\ pureIn.maxDepth = 1
    /\ pureOut = << Descriptor("a", JStr("{object}"), "object", JUndef),
                    Descriptor("a.a", JStr("{object}"), "object", JUndef) >>

\* C27: every array met (at the root or under a key, empty or not) gets a
\* single descriptor for its path, with value "Array(N)" and type array, only
\* index 0 is explored, and no path gets two descriptors.
C27_ArraySingleDescriptor ==
    pureIn.fn = "exploreJSONPaths" =>
        /\ \A i, j \in DOMAIN pureOut :
              pureOut[i].path = pureOut[j].path => i = j
        /\ \A i \in DOMAIN pureOut :
              pureOut[i].type = "array" =>
                  /\ pureOut[i].value.t = "str"
                  /\ SubSeq(pureOut[i].value.s, 1, 6) = "Array("
        /\ pureIn.obj.t = "arr" =>
              \E i \in DOMAIN pureOut :
                  /\ pureOut[i].path = pureIn.prefix
                  /\ pureOut[i].type = "array"
                  /\ pureOut[i].value
                        = JStr("Array(" \o ToString(Len(pureIn.obj.a)) \o ")")
        /\ \A i \in DOMAIN pureOut :
              ~Includes(pureOut[i].path, "[1]")

---------------------------------------------------------------------------
(* Properties of the proxy fallback and of the cache's entries *)

\* C28: when the retry through the proxy settles, a failed retry gives
\* {success: false} with an error beginning 'CORS Error:' and leaves the
\* cache as it was, and a successful retry gives {success: true, cached:
\* false}.
C28_ProxyRetryOutcome ==
    [][\A c \in CallIds :
          (calls[c].pc \in {"proxy", "proxyJson"}
           /\ calls'[c].pc \notin {"proxy", "proxyJson"}) =>
              IF calls'[c].proxyCaught # NoError
              THEN /\ calls'[c].pc = "done"
                   /\ calls'[c].result # NoResult
                   /\ ~calls'[c].result.success
                   /\ SubSeq(calls'[c].result.error.s, 1, 11) = "CORS Error:"
                   /\ apiCache' = apiCache
              ELSE /\ calls'[c].pc = "done"
                   /\ calls'[c].result # NoResult
                   /\ calls'[c].result.success
                   /\ calls'[c].result.cached = FALSE]_vars

\* C29: the cache holds at most one entry per URL: setCachedData(u, V, d)
\* leaves for u exactly the fresh entry (V, fetched now, expiring at now + d),
\* whatever was held for u before, and leaves every other URL's entry as it
\* was.
C29_SetReplacesOnlyItsUrl ==
    [][\A u \in URLs :
          (ret'.op = "set" /\ lastSet'[u] # NoSet /\ lastSet'[u].fresh) =>
              /\ apiCache'[u] = [data |-> lastSet'[u].data, timestamp |-> now,
                                 expiresAt |-> now + lastSet'[u].duration]
              /\ \A w \in URLs \ {u} : apiCache'[w] = apiCache[w]]_vars

\* a set for a URL made while the other URL holds an older entry, which is
\* still there
C29_Witness ==
    \E u \in URLs :
        /\ ret.op = "set" /\ lastSet[u] # NoSet /\ lastSet[u].fresh
        /\ lastSet[u].at > 0
        /\ apiCache[u] # NoEntry /\ apiCache[u].timestamp = lastSet[u].at
        /\ \E w \in URLs \ {u} :
              apiCache[w] # NoEntry /\ apiCache[w].timestamp < apiCache[u].timestamp

---------------------------------------------------------------------------
(* Properties of what a fetch cycle stores *)

\* C30: when a fetch cycle resumes with a successful result, the data it
\* writes to the store is transformAPIData applied to the response, whatever
\* the widget's selectedFields are; the raw response is never stored.
C30_StoredDataIsTransformOutput ==
    [][\A c \in CallIds :
          (/\ cycles[c] # NoCycle /\ cycles'[c] = NoCycle
           /\ calls[c].pc = "done" /\ calls[c].result.success) =>
              \A i \in 1..Len(widgets') :
                  widgets'[i].id = cycles[c].widget.id =>
                      /\ widgets'[i].data
                            = transformAPIData(calls[c].result.data,
                                               cycles[c].widget.selectedFields,
                                               cycles[c].widget.type)
                      /\ widgets'[i].data # calls[c].result.data]_vars

---------------------------------------------------------------------------
(* Properties of the cache under failing calls (SpecFetch) *)

\* C31: a fetchFromAPI call that returns success=false inserts or replaces
\* no cache entry: the step on which it returns leaves the whole cache as it
\* was, and whenever an entry is inserted or replaced, it is for the URL of a
\* call that returns success on that very step.
C31_FailureWritesNothing ==
    [][/\ \A c \in CallIds :
             (/\ calls[c].pc \notin {"idle", "done", "rejected"}
              /\ calls'[c].pc = "done" /\ ~calls'[c].result.success) =>
                 apiCache' = apiCache
       /\ \A u \in URLs :
             (apiCache'[u] # apiCache[u] /\ apiCache'[u] # NoEntry) =>
                 \E c \in CallIds :
                     /\ calls[c].pc \in {"json", "proxyJson"}
                     /\ calls'[c].pc = "done" /\ calls'[c].url = u
                     /\ calls'[c].result.success]_vars

\* a call that went through the proxy and failed, while the entry an earlier
\* call stored for its URL is still in the cache
C31_Witness ==
    \E c \in CallIds :
        /\ calls[c].pc = "done" /\ ~calls[c].result.success
        /\ Len(calls[c].requests) = 2
        /\ apiCache[calls[c].url] # NoEntry
        /\ apiCache[calls[c].url].timestamp < now

---------------------------------------------------------------------------
(* Properties of the entries a widget's cycle writes (SpecIntervals) *)

\* C32: whatever refresh interval the widget holds, NaN included, the cache
\* entry its fetch cycle writes expires no later than 30 seconds after it
\* was stored: from the first clock reading after that, the test of
\* getCachedData and of the sweep (now > expiresAt) finds it expired.
C32_EntryExpiresWithin30s ==
    \A u \in URLs :
        apiCache[u] # NoEntry =>
            JsGt(apiCache[u].timestamp + Ms(30 * 1000) + 1, apiCache[u].expiresAt)

---------------------------------------------------------------------------
(* Properties of overlapping fetch cycles of one widget (SpecWidgets) *)

\* C33: once a manual refresh has stored a response in a widget, no later
\* cache-using fetch cycle of that widget replaces it with a response that
\* came from the network before the manual refresh's response.
C33_ManualResultNotReplacedByOlder ==
    [][\A c \in CallIds :
          (/\ cycles[c] # NoCycle /\ cycles'[c] = NoCycle
           /\ ~cycles[c].skipCache
           /\ calls[c].pc = "done" /\ calls[c].result.success) =>
              \A i \in 1..Len(widgets) :
                  (/\ widgets[i].id = cycles[c].widget.id
                   /\ mounts[i].shown # NoShown /\ mounts[i].shown.manual
                   /\ widgets[i].data # JNull) =>
                      mounts'[i].shown.fetchedAt >= mounts[i].shown.fetchedAt]_vars

\* C34: when fetch cycles of one widget overlap, the data and error in the
\* store once all of them have completed are those of the most recently
\* started cycle: the cycle that completes last does not put the result of
\* an earlier-started cycle in place of a different one.
C34_LastStartedCycleWins ==
    [][\A c \in CallIds :
          (/\ cycles[c] # NoCycle /\ cycles'[c] = NoCycle
           /\ calls[c].pc = "done"
           /\ \A b \in CallIds \ {c} :
                 cycles[b] # NoCycle => cycles[b].widget.id # cycles[c].widget.id) =>
              \A i \in 1..Len(widgets) :
                  (/\ widgets[i].id = cycles[c].widget.id
                   /\ mounts[i].shown # NoShown
                   /\ mounts[i].shown.startedAt > cycles[c].startedAt) =>
                      /\ widgets'[i].data = widgets[i].data
                      /\ widgets'[i].error = widgets[i].error]_vars

\* C35: a widget's loading flag is true exactly while at least one fetch
\* cycle of that widget is in flight.
C35_LoadingIffCycleInFlight ==
    \A i \in 1..Len(widgets) :
        widgets[i].loading <=>
            \E c \in CallIds :
                cycles[c] # NoCycle /\ cycles[c].widget.id = widgets[i].id

---------------------------------------------------------------------------
(* Properties of the store's widget list (SpecLifecycle) *)

\* C37: whatever addWidget, removeWidget, updateWidgetData and
\* setWidgetLoading calls were made, the widgets in the store have pairwise
\* distinct ids (so a removal or an update by id touches exactly one widget).
C37_WidgetIdsDistinct ==
    \A i, j \in 1..Len(widgets) : widgets[i].id = widgets[j].id => i = j

---------------------------------------------------------------------------
(* Properties of explored paths handed to getNestedValue (SpecRoundTrip) *)

\* C36: for every descriptor d that exploreJSONPaths(V) returns,
\* getNestedValue(V, d.path) is the value at the position d describes: the
\* scalar d carries, or an object or array of the type d names (an array
\* whose first element is d's sample); this includes the paths produced for
\* a root-level array and for arrays directly inside arrays.
C36_ExploredPathsResolve ==
    pureIn.fn = "resolveDescriptor" =>
        LET d == pureIn.descriptor IN
        IF d.type \notin {"object", "array"} THEN pureOut = d.value
        ELSE IF d.sample # JUndef
        THEN pureOut.t = "arr" /\ pureOut.a # << >> /\ pureOut.a[1] = d.sample
        ELSE pureOut.t # "undef" /\ typeOf(pureOut) = d.type

---------------------------------------------------------------------------
(* Properties of a widget alone on its URL (SpecLone) *)

====
